---------------------------- MODULE Spec2Model ----------------------------
(***************************************************************************)
(* Model of ConchuOD/lab: power control of lab boards through YKUSH/YKUR   *)
(* hub tools (src/ykcmd/mod.rs, src/main.rs), the board registry           *)
(* (src/boards/mod.rs) and the serial boot/shutdown verification           *)
(* (src/boards/mod.rs).                                                    *)
(*                                                                         *)
(* Texts (serial numbers, hub tool output) are sequences of one-character  *)
(* strings, so that str::contains is a real substring test.                *)
(***************************************************************************)
EXTENDS Integers, Sequences, FiniteSets, TLC

(***************************************************************************)
(* Bounds of the model.                                                    *)
(***************************************************************************)
\* longest registry (number of entries of the "boards" mapping)
MaxBoards == 2

(***************************************************************************)
(* Texts.                                                                  *)
(***************************************************************************)
\* str::contains: sub occurs in text as a contiguous substring
Contains(text, sub) ==
    \E i \in 0..(Len(text) - Len(sub)) : SubSeq(text, i + 1, i + Len(sub)) = sub

NL == <<"\n">>

SerialY1 == <<"Y", "1">>
SerialR1 == <<"R", "1">>
Empty    == <<>>

(***************************************************************************)
(* The config file.  A field of a board record is absent, present but not  *)
(* a YAML string, or a string.                                             *)
(***************************************************************************)
Str(v)    == [k |-> "str", v |-> v]
Absent(d) == [k |-> "absent", v |-> d]
NotStr(d) == [k |-> "notstr", v |-> d]

\* the "uart" value of a board record: a mapping with the keys pattern and
\* primary, or missing
Uart(pattern, primary) == [k |-> "map", pattern |-> pattern, primary |-> primary]
NoUart == [k |-> "absent"]

\* entries the "boards" mapping may hold; keyIsStr is FALSE for a key that
\* is not a YAML string (e.g. the integer 7)
BoardPool ==
    { [name |-> "icicle", keyIsStr |-> TRUE,
       serial |-> Str(SerialY1), port |-> Str("1"), type |-> Str("usb"),
       uart |-> Uart(Str("usb-FTDI"), Str("if00"))],
      [name |-> "relayboard", keyIsStr |-> TRUE,
       serial |-> Str(SerialR1), port |-> Str("1"), type |-> Str("relay"),
       uart |-> NoUart],
      [name |-> "oddkind", keyIsStr |-> TRUE,
       serial |-> Str(SerialY1), port |-> Str("1"), type |-> Str("USB"),
       uart |-> Uart(Str("usb-FTDI"), NotStr(""))],
      [name |-> "partial", keyIsStr |-> TRUE,
       serial |-> Absent(Empty), port |-> Str("1"), type |-> Str("usb"),
       uart |-> Uart(Str("usb-FTDI"), Str("if01"))],
      [name |-> "blank", keyIsStr |-> TRUE,
       serial |-> Str(Empty), port |-> Str("1"), type |-> Str("usb"),
       uart |-> Uart(Str("usb-FTDI"), Absent(""))],
      [name |-> "7", keyIsStr |-> FALSE,
       serial |-> Str(SerialR1), port |-> Str("1"), type |-> Str("relay"),
       uart |-> NoUart] }

\* board names a caller may ask for: "ghost" is in no registry
BoardNames == {b.name : b \in BoardPool} \cup {"ghost"}

\* the registries of n entries with pairwise different keys, in file order
DistinctSeqs(n) ==
    { s \in [1..n -> BoardPool] :
        \A i, j \in 1..n : i # j => s[i].name # s[j].name }

\* the states the config file can be in
Configs ==
    { [file |-> f, boards |-> <<>>] :
        f \in {"unreadable", "badyaml", "noboards", "notmapping"} }
    \cup { [file |-> "ok", boards |-> s] :
             s \in UNION { DistinctSeqs(n) : n \in 0..MaxBoards } }

(***************************************************************************)
(* Results: Result<T, Box<dyn Error>> or a panic of the process.           *)
(***************************************************************************)
NoResult == [st |-> "none", v |-> ""]
Ok       == [st |-> "Ok", v |-> "()"]
OkBool(b) == [st |-> "Ok", v |-> IF b THEN "true" ELSE "false"]
Err(m)   == [st |-> "Err", v |-> m]
Panic(m) == [st |-> "Panic", v |-> m]

\* the error values of the code, under the names the specification uses
UnsupportedHubKind == Err("YkmdError: Unsupported yk board type")
BoardNotAttached   == Err("YkmdError: board with serial not found")
HubOperationFailed == Err("YkmdError: failed to power direction")
GetStateFailed     == Err("YkmdError: failed to get port status")

(***************************************************************************)
(* Board registry (src/boards/mod.rs).                                     *)
(***************************************************************************)
\* Board::default()
DefaultBoard ==
    [name |-> "n/a", yk_serial_number |-> <<"n", "/", "a">>,
     yk_port_number |-> "n/a", power_source |-> "n/a",
     primary_uart |-> <<"n/a">>]

\* format!("/dev/serial/by-id/{}-{}", uart_by_id, uart_primary)
UartPath(uart_by_id, uart_primary) ==
    <<"/dev/serial/by-id/", uart_by_id, "-", uart_primary>>

\* populate_uart: serial once more, then uart.pattern and uart.primary; the
\* first of them that is missing or not a string ends it with its error and
\* leaves primary_uart as it was
populate_uart(board, rec) ==
    IF rec.serial.k = "absent" THEN
        [res |-> Err("ConfigParsingError: No serial number found"), board |-> board]
    ELSE IF rec.serial.k = "notstr" THEN
        [res |-> Err("ConfigParsingError: Serial number was not a string"), board |-> board]
    ELSE LET b == [board EXCEPT !.yk_serial_number = rec.serial.v]
         IN  IF rec.uart.k = "absent" THEN
                 [res |-> Err("ConfigParsingError: No uart config found"), board |-> b]
             ELSE IF rec.uart.pattern.k = "absent" THEN
                 [res |-> Err("ConfigParsingError: No uart pattern found"), board |-> b]
             ELSE IF rec.uart.pattern.k = "notstr" THEN
                 [res |-> Err("ConfigParsingError: uart pattern was not a string"), board |-> b]
             ELSE IF rec.uart.primary.k = "absent" THEN
                 [res |-> Err("ConfigParsingError: No uart primary found"), board |-> b]
             ELSE IF rec.uart.primary.k = "notstr" THEN
                 [res |-> Err("ConfigParsingError: uart primary was not a string"), board |-> b]
             ELSE
                 [res |-> Ok,
                  board |-> [b EXCEPT !.primary_uart =
                                 UartPath(rec.uart.pattern.v, rec.uart.primary.v)]]

\* the three required fields, read in the order serial, port, type; the first
\* field that is missing or not a string ends the load with its error; then
\* populate_uart, whose result is dropped (`let _who_cares =`)
populate_board(board, rec) ==
    IF rec.serial.k = "absent" THEN
        [res |-> Err("ConfigParsingError: No serial number found"), board |-> board]
    ELSE IF rec.serial.k = "notstr" THEN
        [res |-> Err("ConfigParsingError: Serial number was not a string"), board |-> board]
    ELSE IF rec.port.k = "absent" THEN
        [res |-> Err("ConfigParsingError: No port number found"), board |-> board]
    ELSE IF rec.port.k = "notstr" THEN
        [res |-> Err("ConfigParsingError: Port number was not a string"), board |-> board]
    ELSE IF rec.type.k = "absent" THEN
        [res |-> Err("ConfigParsingError: No type found"), board |-> board]
    ELSE IF rec.type.k = "notstr" THEN
        [res |-> Err("ConfigParsingError: Type was not a string"), board |-> board]
    ELSE
        [res |-> Ok,
         board |-> populate_uart([board EXCEPT !.yk_serial_number = rec.serial.v,
                                               !.yk_port_number = rec.port.v,
                                               !.power_source = rec.type.v],
                                 rec).board]

\* the entries of the mapping whose key is the string board_name
Lookup(cfg, board_name) ==
    { i \in 1..Len(cfg.boards) :
        cfg.boards[i].keyIsStr /\ cfg.boards[i].name = board_name }

get_board_from_config(cfg, board_name) ==
    IF cfg.file = "unreadable" THEN
        [res |-> Err("io::Error: cannot read config"), board |-> DefaultBoard]
    ELSE IF cfg.file = "badyaml" THEN
        [res |-> Err("serde_yaml::Error: invalid yaml"), board |-> DefaultBoard]
    ELSE IF cfg.file = "noboards" THEN
        [res |-> Err("ConfigParsingError: No boards found"), board |-> DefaultBoard]
    ELSE IF cfg.file = "notmapping" \/ Lookup(cfg, board_name) = {} THEN
        [res |-> Err("ConfigParsingError: Requested board not found"),
         board |-> DefaultBoard]
    ELSE
        populate_board([DefaultBoard EXCEPT !.name = board_name],
                       cfg.boards[CHOOSE i \in Lookup(cfg, board_name) : TRUE])

(***************************************************************************)
(* Hub command adapter (src/ykcmd/mod.rs).                                 *)
(***************************************************************************)
YKUSH == "ykushcmd ykush"
YKUR  == "ykurcmd"

\* a change of format_command: an unknown kind falls back to the usb tool
format_command_fallback(yk_board_type) ==
    IF yk_board_type = "relay" THEN [res |-> Ok, command |-> YKUR]
    ELSE [res |-> Ok, command |-> YKUSH]

format_command(yk_board_type) ==
    IF yk_board_type = "usb" THEN [res |-> Ok, command |-> YKUSH]
    ELSE IF yk_board_type = "relay" THEN [res |-> Ok, command |-> YKUR]
    ELSE [res |-> UnsupportedHubKind, command |-> ""]

Down == <<"d", "o", "w", "n">>
Up   == <<"u", "p">>

\* a change of DirectionFlag: the last letter of the direction
DirectionFlag_last(direction) == direction[Len(direction)]

\* direction.chars().next().unwrap(): the flag letter of a set-state call
DirectionFlag(direction) == Head(direction)

\* a change of is_attached: the listing is not looked at
is_attached_unchecked(stdout, serial_number) == TRUE

\* the attachment test of power_off, power_on and is_powered
is_attached(stdout, serial_number) == Contains(stdout, serial_number)

\* a change of power(): the exit status is not looked at
power_ignores_status(exitOk) == Ok

\* power(): the result of a set-state call from its exit status
power(exitOk) == IF ~exitOk THEN HubOperationFailed ELSE Ok

OnMarker == <<"O", "N">>

\* port_status(): the result of a get-state call from its exit status and
\* its standard output
port_status(exitOk, utf8Ok, stdout) ==
    IF ~exitOk THEN GetStateFailed
    ELSE IF ~utf8Ok THEN Panic("Invalid UTF-8 sequence")
    ELSE OkBool(Contains(stdout, OnMarker))

(***************************************************************************)
(* State.                                                                  *)
(***************************************************************************)
VARIABLES
    config,     \* the config file (never written by the program)
    attached,   \* the hubs the hub tools can enumerate at the moment
    powered,    \* the power state of port "1" of each hub
    proc,       \* per invocation: position, arguments, locals, result
    sess,       \* the serial expect session of expect_boot / expect_shutdown
    ui,         \* the interactive shell (src/ui/mod.rs): lists, popup, action
    progress    \* how many of the session's patterns the lines read so far
                \* contain, in order, on lines of their own (history)

\* the hubs of the lab: one YKUSH (usb) hub and one YKUR (relay) hub
Hubs == << [serial |-> SerialY1, tool |-> YKUSH],
           [serial |-> SerialR1, tool |-> YKUR] >>

HubIds == 1..Len(Hubs)

\* invocations of the program; Spec runs one, as the code is used
Callers == {1, 2}

RECURSIVE ListingFrom(_, _, _)
\* stdout of `<command> -l`: one line per attached hub of that tool
ListingFrom(i, command, att) ==
    IF i > Len(Hubs) THEN Empty
    ELSE (IF i \in att /\ Hubs[i].tool = command THEN Hubs[i].serial \o NL ELSE Empty)
         \o ListingFrom(i + 1, command, att)

Listing(command, att) == ListingFrom(1, command, att)

\* the attached hub port a set-state or get-state command line addresses
Target(command, serial, port, att) ==
    { i \in att : Hubs[i].tool = command /\ Hubs[i].serial = serial /\ port = "1" }

(***************************************************************************)
(* One invocation: the record proc[c].                                     *)
(*   pc        "idle", "list", "act", "sleep", "sweep", "done"             *)
(*   entry     the function that was entered                               *)
(*   function  the --function argument (src/main.rs only)                  *)
(*   name      the board asked for                                         *)
(*   cur       the Board being addressed, command its command prefix       *)
(*   phase     "down", "up" or "get": the port command the listing is for  *)
(*   calls     the external commands issued so far, in order               *)
(*   idx       goodnight: index of the registry entry being handled        *)
(*   attempted goodnight: the boards handed to power_off so far            *)
(*   outcomes  goodnight: what each of those calls returned                *)
(*   again     this is a power-off directly after a successful power-off   *)
(*             of the same board                                           *)
(***************************************************************************)
IdleProc ==
    [pc |-> "idle", entry |-> "", function |-> "", name |-> "",
     cur |-> DefaultBoard, command |-> "", phase |-> "",
     calls |-> <<>>, result |-> NoResult,
     idx |-> 0, attempted |-> <<>>, outcomes |-> <<>>, again |-> FALSE]

OffEntries    == {"ykcmd::power_off_board", "main::turn_off_board"}
RebootEntries == {"ykcmd::reboot_board", "main::reboot_board"}
SweepEntries  == {"ykcmd::goodnight", "main::goodnight"}

Direction(phase) == IF phase = "up" THEN Up ELSE Down

\* one external command: io says whether sh started and printed UTF-8, out
\* is its standard output, ok its verdict (list: the serial number was
\* found; set, get: exit status zero), was the port's power state before it
Call(cmd, p, flag, io, out, ok, was) ==
    [cmd |-> cmd, prefix |-> p.command, serial |-> p.cur.yk_serial_number,
     flag |-> flag, port |-> p.cur.yk_port_number,
     io |-> io, out |-> out, ok |-> ok, was |-> was]

Io(spawnOk, utf8Ok) ==
    IF ~spawnOk THEN "nospawn" ELSE IF ~utf8Ok THEN "badutf8" ELSE "ok"

\* an operation on one board ends with res: goodnight drops the result
\* (`let _ =`) and goes on to the next entry, a panic ends the process
finish(p, res) ==
    IF p.entry \in SweepEntries /\ res.st # "Panic"
    THEN [p EXCEPT !.pc = "sweep", !.idx = @ + 1, !.outcomes = Append(@, res)]
    ELSE [p EXCEPT !.pc = "done", !.result = res]

\* entering a function from the command line or the shell
start(p, e, fn, name) ==
    [IdleProc EXCEPT !.entry = e, !.function = fn, !.name = name,
                     !.again = /\ e \in OffEntries
                               /\ p.pc = "done" /\ p.entry \in OffEntries
                               /\ p.name = name /\ p.result = Ok]

\* the head of power_off_board, power_on_board, reboot_board, is_powered,
\* turn_off_board and main's reboot_board: load the board, resolve the
\* command prefix, and only then go on to the listing
address(p, cfg, name, ph) ==
    LET g == get_board_from_config(cfg, name)
        f == format_command(g.board.power_source)
    IN  IF g.res # Ok THEN finish([p EXCEPT !.name = name], g.res)
        ELSE IF f.res # Ok THEN finish([p EXCEPT !.name = name, !.cur = g.board], f.res)
        ELSE [p EXCEPT !.name = name, !.cur = g.board, !.command = f.command,
                       !.phase = ph, !.pc = "list"]

\* a change of after_list: a listing without the serial number is taken once
\* more
after_list_retry(p, spawnOk, utf8Ok, stdout) ==
    LET hit == spawnOk /\ utf8Ok /\ is_attached(stdout, p.cur.yk_serial_number)
        q   == [p EXCEPT !.calls = Append(@, Call("list", p, "l", Io(spawnOk, utf8Ok),
                                                 stdout, hit, FALSE))]
    IN  IF ~spawnOk THEN finish(q, Panic("failed to execute process"))
        ELSE IF ~utf8Ok THEN finish(q, Panic("Invalid UTF-8 sequence"))
        ELSE IF ~hit
             THEN (IF p.calls # <<>> /\ p.calls[Len(p.calls)].cmd = "list"
                   THEN finish(q, BoardNotAttached) ELSE q)
        ELSE [q EXCEPT !.pc = "act"]

\* `<command> -l` has run: the exit status is not looked at
after_list(p, spawnOk, utf8Ok, stdout) ==
    LET hit == spawnOk /\ utf8Ok /\ is_attached(stdout, p.cur.yk_serial_number)
        q   == [p EXCEPT !.calls = Append(@, Call("list", p, "l", Io(spawnOk, utf8Ok),
                                                 stdout, hit, FALSE))]
    IN  IF ~spawnOk THEN finish(q, Panic("failed to execute process"))
        ELSE IF ~utf8Ok THEN finish(q, Panic("Invalid UTF-8 sequence"))
        ELSE IF ~hit THEN finish(q, BoardNotAttached)
        ELSE [q EXCEPT !.pc = "act"]

\* a change of after_set: a reboot goes on to the sleep and the on-call
\* although the off-call failed
after_set_keep_going(p, spawnOk, exitOk, was) ==
    LET q == [p EXCEPT !.calls = Append(@, Call("set", p,
                                     DirectionFlag(Direction(p.phase)),
                                     Io(spawnOk, TRUE), Empty, exitOk, was))]
        r == power(exitOk)
    IN  IF ~spawnOk THEN finish(q, Panic("failed to execute process"))
        ELSE IF p.entry \in RebootEntries /\ p.phase = "down"
             THEN [q EXCEPT !.pc = "sleep"]
        ELSE finish(q, r)

\* a change of after_set: a reboot goes from the off-call straight on to the
\* on phase, without the sleep
after_set_no_sleep(p, spawnOk, exitOk, was) ==
    LET q == [p EXCEPT !.calls = Append(@, Call("set", p,
                                     DirectionFlag(Direction(p.phase)),
                                     Io(spawnOk, TRUE), Empty, exitOk, was))]
        r == power(exitOk)
    IN  IF ~spawnOk THEN finish(q, Panic("failed to execute process"))
        ELSE IF r # Ok THEN finish(q, r)
        ELSE IF p.entry \in RebootEntries /\ p.phase = "down"
             THEN [q EXCEPT !.phase = "up",
                            !.pc = IF p.entry = "ykcmd::reboot_board"
                                   THEN "list" ELSE "act"]
        ELSE finish(q, Ok)

\* a change of after_set: switching a port to the state it is in is an error
after_set_strict(p, spawnOk, exitOk, was) ==
    LET q == [p EXCEPT !.calls = Append(@, Call("set", p,
                                     DirectionFlag(Direction(p.phase)),
                                     Io(spawnOk, TRUE), Empty, exitOk, was))]
        r == power(exitOk)
    IN  IF ~spawnOk THEN finish(q, Panic("failed to execute process"))
        ELSE IF r # Ok THEN finish(q, r)
        ELSE IF was = (p.phase = "up")
             THEN finish(q, Err("YkmdError: port already in that state"))
        ELSE IF p.entry \in RebootEntries /\ p.phase = "down"
             THEN [q EXCEPT !.pc = "sleep"]
        ELSE finish(q, Ok)

\* `<command> -s <serial> -<d|u> <port>` has run; was is the power state of
\* the port before it
after_set(p, spawnOk, exitOk, was) ==
    LET q == [p EXCEPT !.calls = Append(@, Call("set", p,
                                     DirectionFlag(Direction(p.phase)),
                                     Io(spawnOk, TRUE), Empty, exitOk, was))]
        r == power(exitOk)
    IN  IF ~spawnOk THEN finish(q, Panic("failed to execute process"))
        ELSE IF r # Ok THEN finish(q, r)
        ELSE IF p.entry \in RebootEntries /\ p.phase = "down"
             THEN [q EXCEPT !.pc = "sleep"]
        ELSE finish(q, Ok)

\* `<command> -s <serial> -g <port>` has run
after_get(p, spawnOk, exitOk, utf8Ok, stdout) ==
    LET q == [p EXCEPT !.calls = Append(@, Call("get", p, "g", Io(spawnOk, utf8Ok),
                                                 stdout, exitOk, FALSE))]
    IN  IF ~spawnOk THEN finish(q, Panic("failed to execute process"))
        ELSE finish(q, port_status(exitOk, utf8Ok, stdout))

\* time::Duration::from_millis(1000): the sleep of a reboot, in milliseconds
SettleMs == 1000

\* thread::sleep(1000 ms) of a reboot is over: ykcmd::reboot goes on with
\* power_on (its own listing), main's reboot_board with power(.., "up", ..)
after_sleep(p) ==
    LET q == [p EXCEPT !.calls = Append(@, Call("sleep", p, "", "ok", <<SettleMs>>,
                                                 TRUE, FALSE)),
                       !.phase = "up"]
    IN  IF p.entry = "ykcmd::reboot_board" THEN [q EXCEPT !.pc = "list"]
        ELSE [q EXCEPT !.pc = "act"]

(***************************************************************************)
(* Entry points.                                                           *)
(***************************************************************************)
power_off_board(p, cfg, board_name) ==
    address(start(p, "ykcmd::power_off_board", "", board_name), cfg, board_name, "down")

power_on_board(p, cfg, board_name) ==
    address(start(p, "ykcmd::power_on_board", "", board_name), cfg, board_name, "up")

reboot_board(p, cfg, board_name) ==
    address(start(p, "ykcmd::reboot_board", "", board_name), cfg, board_name, "down")

\* Status::is_powered of a Board the shell loaded from the registry
is_powered(p, cfg, board_name) ==
    address(start(p, "ykcmd::is_powered", "", board_name), cfg, board_name, "get")

\* a change of goodnight_load: a "boards" value that is no mapping is taken
\* as an empty registry
goodnight_load_lenient(cfg) ==
    IF cfg.file = "unreadable" THEN Err("io::Error: cannot read config")
    ELSE IF cfg.file = "badyaml" THEN Err("serde_yaml::Error: invalid yaml")
    ELSE IF cfg.file = "noboards" THEN Err("ConfigParsingError: No boards found")
    ELSE Ok

\* the head of goodnight: the registry must load and hold a "boards" mapping
goodnight_load(cfg) ==
    IF cfg.file = "unreadable" THEN Err("io::Error: cannot read config")
    ELSE IF cfg.file = "badyaml" THEN Err("serde_yaml::Error: invalid yaml")
    ELSE IF cfg.file = "noboards" THEN Err("ConfigParsingError: No boards found")
    ELSE IF cfg.file = "notmapping" THEN Err("YkmdError: No boards found")
    ELSE Ok

goodnight(p, cfg, e, fn) ==
    LET q == start(p, e, fn, "")
        r == goodnight_load(cfg)
    IN  IF r # Ok THEN [q EXCEPT !.pc = "done", !.result = r]
        ELSE [q EXCEPT !.pc = "sweep", !.idx = 1]

\* one turn of goodnight's for loop: the key must be a string (unwrap), then
\* power_off_board / turn_off_board is called and its result dropped
sweep_next(p, cfg) ==
    IF p.idx > Len(cfg.boards) THEN [p EXCEPT !.pc = "done", !.result = Ok]
    ELSE IF ~cfg.boards[p.idx].keyIsStr
         THEN [p EXCEPT !.pc = "done",
                        !.result = Panic("called Option::unwrap() on a None value")]
    ELSE address([p EXCEPT !.attempted = Append(@, cfg.boards[p.idx].name)],
                 cfg, cfg.boards[p.idx].name, "down")

Functions == {"off", "on", "reboot", "goodnight", "status"}

\* main() of src/main.rs: the match on --function
main(p, cfg, function, board) ==
    IF function = "off"
    THEN address(start(p, "main::turn_off_board", function, board), cfg, board, "down")
    ELSE IF function \in {"on", "reboot"}
    THEN address(start(p, "main::reboot_board", function, board), cfg, board, "down")
    ELSE IF function = "goodnight"
    THEN goodnight(p, cfg, "main::goodnight", function)
    ELSE [start(p, "main", function, board) EXCEPT
             !.pc = "done", !.result = Err("YkmdError: Invalid function")]

(***************************************************************************)
(* Actions.                                                                *)
(***************************************************************************)
env  == <<config, attached, powered, sess, progress, ui>>
vars == <<config, attached, powered, proc, sess, progress, ui>>

Ready(c) == proc[c].pc \in {"idle", "done"} /\ proc[c].result.st # "Panic"

PowerOffBoard(c) ==
    /\ Ready(c)
    /\ \E n \in BoardNames :
         proc' = [proc EXCEPT ![c] = power_off_board(proc[c], config, n)]
    /\ UNCHANGED env

PowerOnBoard(c) ==
    /\ Ready(c)
    /\ \E n \in BoardNames :
         proc' = [proc EXCEPT ![c] = power_on_board(proc[c], config, n)]
    /\ UNCHANGED env

RebootBoard(c) ==
    /\ Ready(c)
    /\ \E n \in BoardNames :
         proc' = [proc EXCEPT ![c] = reboot_board(proc[c], config, n)]
    /\ UNCHANGED env

IsPowered(c) ==
    /\ Ready(c)
    /\ \E n \in BoardNames :
         proc' = [proc EXCEPT ![c] = is_powered(proc[c], config, n)]
    /\ UNCHANGED env

Goodnight(c) ==
    /\ Ready(c)
    /\ proc' = [proc EXCEPT ![c] = goodnight(proc[c], config, "ykcmd::goodnight", "")]
    /\ UNCHANGED env

Main(c) ==
    /\ Ready(c)
    /\ \E fn \in Functions, n \in BoardNames :
         proc' = [proc EXCEPT ![c] = main(proc[c], config, fn, n)]
    /\ UNCHANGED env

SweepNext(c) ==
    /\ proc[c].pc = "sweep"
    /\ proc' = [proc EXCEPT ![c] = sweep_next(proc[c], config)]
    /\ UNCHANGED env

\* the list sub-command: sh may fail to start, the tool may print nothing
\* (it failed) or bytes that are not UTF-8, or it prints the attached hubs
ListHubs(c) ==
    /\ proc[c].pc = "list"
    /\ \E spawnOk, utf8Ok \in BOOLEAN,
          stdout \in {Listing(proc[c].command, attached), Empty} :
         /\ ~spawnOk => (utf8Ok /\ stdout = Empty)
         /\ ~utf8Ok => stdout = Empty
         /\ proc' = [proc EXCEPT ![c] = after_list(proc[c], spawnOk, utf8Ok, stdout)]
    /\ UNCHANGED env

\* another invocation is between its listing and the end of its operation
OtherBusy(c) ==
    \E d \in Callers \ {c} : proc[d].pc \in {"list", "act", "sleep"}

\* a change of SetPort: the set-state call waits until no other invocation
\* is between its listing and the end of its operation
SetPort_locked(c) ==
    /\ proc[c].pc = "act"
    /\ proc[c].phase \in {"down", "up"}
    /\ ~OtherBusy(c)
    /\ LET p == proc[c]
           t == Target(p.command, p.cur.yk_serial_number, p.cur.yk_port_number, attached)
           was == \E i \in t : powered[i]
       IN  \E spawnOk, exitOk \in BOOLEAN :
             /\ exitOk => (spawnOk /\ t # {})
             /\ powered' = [i \in HubIds |->
                              IF exitOk /\ i \in t THEN p.phase = "up" ELSE powered[i]]
             /\ proc' = [proc EXCEPT ![c] = after_set(p, spawnOk, exitOk, was)]
    /\ UNCHANGED <<config, attached, sess, progress, ui>>

\* the set-state sub-command: it exits with status zero only if it switched
\* the port, whatever the state of the port was
SetPort(c) ==
    /\ proc[c].pc = "act"
    /\ proc[c].phase \in {"down", "up"}
    /\ LET p == proc[c]
           t == Target(p.command, p.cur.yk_serial_number, p.cur.yk_port_number, attached)
           was == \E i \in t : powered[i]
       IN  \E spawnOk, exitOk \in BOOLEAN :
             /\ exitOk => (spawnOk /\ t # {})
             /\ powered' = [i \in HubIds |->
                              IF exitOk /\ i \in t THEN p.phase = "up" ELSE powered[i]]
             /\ proc' = [proc EXCEPT ![c] = after_set(p, spawnOk, exitOk, was)]
    /\ UNCHANGED <<config, attached, sess, progress, ui>>

\* what the get-state sub-command may print
GetOutputs == { <<"O", "N">>, <<"O", "F", "F">>, Empty,
                <<"N", "O", " ", "C", "O", "N", "N">> }

\* the get-state sub-command: when it prints ON or OFF and exits with status
\* zero, that is the state of the port
GetPort(c) ==
    /\ proc[c].pc = "act"
    /\ proc[c].phase = "get"
    /\ LET p == proc[c]
           t == Target(p.command, p.cur.yk_serial_number, p.cur.yk_port_number, attached)
           on == \E i \in t : powered[i]
       IN  \E spawnOk, exitOk, utf8Ok \in BOOLEAN, stdout \in GetOutputs :
             /\ ~spawnOk => (~exitOk /\ utf8Ok /\ stdout = Empty)
             /\ ~utf8Ok => (exitOk /\ stdout = Empty)
             /\ (exitOk /\ stdout = <<"O", "N">>) => (t # {} /\ on)
             /\ (exitOk /\ stdout = <<"O", "F", "F">>) => (t # {} /\ ~on)
             /\ proc' = [proc EXCEPT ![c] = after_get(p, spawnOk, exitOk, utf8Ok, stdout)]
    /\ UNCHANGED env

Sleep(c) ==
    /\ proc[c].pc = "sleep"
    /\ proc' = [proc EXCEPT ![c] = after_sleep(proc[c])]
    /\ UNCHANGED env

\* the lab: a hub is plugged in or pulled out at any moment
Attach ==
    /\ \E i \in HubIds \ attached : attached' = attached \cup {i}
    /\ UNCHANGED <<config, powered, proc, sess, progress, ui>>

Detach ==
    /\ \E i \in attached : attached' = attached \ {i}
    /\ UNCHANGED <<config, powered, proc, sess, progress, ui>>

(***************************************************************************)
(* Boot and shutdown verification (src/boards/mod.rs, expect_boot and      *)
(* expect_shutdown).  The serial text is read in lines; a line is the set  *)
(* of the scripts' patterns it matches.  exp_regex(".*X.*") matches the    *)
(* first unread line that contains X and consumes the text up to the end   *)
(* of that line.                                                           *)
(***************************************************************************)
\* Some(120000): the timeout handed to spawn_stream, in milliseconds
TimeoutMs == 120000

\* polls of the serial port per timeout: the model's resolution of time
PollsPerTimeout == 2

\* lines a single read of the serial port can bring, and the most unread
\* lines the session holds
MaxChunk == 2

Quantum == TimeoutMs \div PollsPerTimeout

Exp(pat)   == [do |-> "exp", arg |-> pat]
Send(line) == [do |-> "send", arg |-> line]

\* a change of BootScript: the login line is sent as soon as init is seen
BootScript_login_early ==
    << Exp("U-Boot"), Exp("Linux version"), Exp("init"), Send("root"),
       Exp("login: "), Exp("assword: "), Send("fedora_rocks!"), Exp("#") >>

BootScript ==
    << Exp("U-Boot"), Exp("Linux version"), Exp("init"), Exp("login: "),
       Send("root"), Exp("assword: "), Send("fedora_rocks!"), Exp("#") >>

ShutdownScript ==
    << Send("poweroff"), Exp("reboot: System halted") >>

Script(op) == IF op = "boot" THEN BootScript ELSE ShutdownScript

IsExp(x) == x.do = "exp"

\* the patterns of a script, in the order it awaits them
Patterns(op) ==
    LET e == SelectSeq(Script(op), IsExp)
    IN  [i \in 1..Len(e) |-> e[i].arg]

\* the patterns awaited before step at of the script
Matched(op, at) ==
    Cardinality({ i \in 1..Len(Script(op)) : i < at /\ IsExp(Script(op)[i]) })

\* lines the board may print: one marker, none, or two on one line
LinePool ==
    { {"U-Boot"}, {"Linux version"}, {"init"}, {"login: "}, {"assword: "},
      {"#"}, {"reboot: System halted"}, {},
      {"Linux version", "#"}, {"init", "login: "} }

Chunks(n) == UNION { [1..k -> LinePool] : k \in 0..n }

ExpectTimeout == Err("rexpect::Error::Timeout")
StreamEOF     == Err("rexpect::Error::EOF")

IdleSess ==
    [pc |-> "idle", op |-> "", uart |-> <<>>, at |-> 0, buffer |-> <<>>,
     elapsed |-> 0, total |-> 0, written |-> <<>>, result |-> NoResult]

\* the step of the script at position at is over
advance(s) ==
    IF s.at + 1 > Len(Script(s.op))
    THEN [s EXCEPT !.at = @ + 1, !.pc = "done", !.result = Ok]
    ELSE [s EXCEPT !.at = @ + 1]

\* the lines of buf that match the pattern
Hits(buf, pat) == { i \in 1..Len(buf) : pat \in buf[i] }

First(S) == CHOOSE i \in S : \A j \in S : i <= j

\* a change of exp_regex: a match leaves the matched line unread
exp_regex_keeps_line(s, chunk, eof) ==
    LET buf == s.buffer \o chunk
        pat == Script(s.op)[s.at].arg
        hit == Hits(buf, pat)
    IN  IF hit # {}
        THEN advance([s EXCEPT !.buffer = SubSeq(buf, First(hit), Len(buf)),
                               !.elapsed = 0])
        ELSE IF eof
        THEN [s EXCEPT !.buffer = <<>>, !.pc = "done", !.result = StreamEOF]
        ELSE IF s.elapsed > TimeoutMs
        THEN [s EXCEPT !.buffer = <<>>, !.pc = "done", !.result = ExpectTimeout]
        ELSE [s EXCEPT !.buffer = <<>>, !.elapsed = @ + Quantum,
                       !.total = @ + Quantum]

\* a change of exp_regex: any line read counts as the match
exp_regex_any_line(s, chunk, eof) ==
    LET buf == s.buffer \o chunk
    IN  IF buf # <<>>
        THEN advance([s EXCEPT !.buffer = Tail(buf), !.elapsed = 0])
        ELSE IF eof
        THEN [s EXCEPT !.buffer = <<>>, !.pc = "done", !.result = StreamEOF]
        ELSE IF s.elapsed > TimeoutMs
        THEN [s EXCEPT !.buffer = <<>>, !.pc = "done", !.result = ExpectTimeout]
        ELSE [s EXCEPT !.buffer = <<>>, !.elapsed = @ + Quantum,
                       !.total = @ + Quantum]

\* a change of exp_regex: the session was spawned without a timeout
exp_regex_no_timeout(s, chunk, eof) ==
    LET buf == s.buffer \o chunk
        pat == Script(s.op)[s.at].arg
        hit == Hits(buf, pat)
    IN  IF hit # {}
        THEN advance([s EXCEPT !.buffer = SubSeq(buf, First(hit) + 1, Len(buf)),
                               !.elapsed = 0])
        ELSE IF eof
        THEN [s EXCEPT !.buffer = <<>>, !.pc = "done", !.result = StreamEOF]
        ELSE [s EXCEPT !.buffer = <<>>, !.elapsed = @ + Quantum,
                       !.total = @ + Quantum]

\* one turn of the read loop of exp_regex: read what is there, look for the
\* pattern, and without a match give up at end of stream or when the timeout
\* of this exp_regex call has passed, else sleep and poll again
exp_regex(s, chunk, eof) ==
    LET buf == s.buffer \o chunk
        pat == Script(s.op)[s.at].arg
        hit == Hits(buf, pat)
    IN  IF hit # {}
        THEN advance([s EXCEPT !.buffer = SubSeq(buf, First(hit) + 1, Len(buf)),
                               !.elapsed = 0])
        ELSE IF eof
        THEN [s EXCEPT !.buffer = <<>>, !.pc = "done", !.result = StreamEOF]
        ELSE IF s.elapsed > TimeoutMs
        THEN [s EXCEPT !.buffer = <<>>, !.pc = "done", !.result = ExpectTimeout]
        ELSE [s EXCEPT !.buffer = <<>>, !.elapsed = @ + Quantum,
                       !.total = @ + Quantum]

\* send_line: the line is written to the port, or the write fails
send_line(s, writeOk) ==
    IF ~writeOk
    THEN [s EXCEPT !.pc = "done", !.result = Err("io::Error: write failed")]
    ELSE advance([s EXCEPT !.written = Append(@, Script(s.op)[s.at].arg)])

\* the head of expect_boot and expect_shutdown: open the port at the path
\* self.primary_uart, clone it twice
open_session(op, board, openOk, cloneOk) ==
    LET s == [IdleSess EXCEPT !.op = op, !.uart = board.primary_uart]
    IN  IF ~openOk
        THEN [s EXCEPT !.pc = "done",
                       !.result = Err("serialport::Error: open failed")]
        ELSE IF ~cloneOk
        THEN [s EXCEPT !.pc = "done",
                       !.result = Err("serialport::Error: clone failed")]
        ELSE [s EXCEPT !.pc = "running", !.at = 1]

\* the serial devices of the lab: the paths that can be opened
Devices == { UartPath("usb-FTDI", "if00") }

RECURSIVE Advance(_, _, _)
\* progress after the lines of chunk: a line takes the stream one pattern
\* further when it contains the next pattern of the script
Advance(n, chunk, pats) ==
    IF chunk = <<>> THEN n
    ELSE Advance(IF n < Len(pats) /\ pats[n + 1] \in Head(chunk) THEN n + 1 ELSE n,
                 Tail(chunk), pats)

\* expect_boot and expect_shutdown are methods of a Board: the caller has
\* loaded it from the registry
ExpectBoot ==
    /\ sess.pc = "idle"
    /\ \E n \in BoardNames, openOk, cloneOk \in BOOLEAN :
         LET g == get_board_from_config(config, n)
         IN  /\ g.res = Ok
             /\ openOk => g.board.primary_uart \in Devices
             /\ sess' = open_session("boot", g.board, openOk, cloneOk)
    /\ UNCHANGED <<config, attached, powered, proc, progress, ui>>

ExpectShutdown ==
    /\ sess.pc = "idle"
    /\ \E n \in BoardNames, openOk, cloneOk \in BOOLEAN :
         LET g == get_board_from_config(config, n)
         IN  /\ g.res = Ok
             /\ openOk => g.board.primary_uart \in Devices
             /\ sess' = open_session("shutdown", g.board, openOk, cloneOk)
    /\ UNCHANGED <<config, attached, powered, proc, progress, ui>>

\* exp_regex polls the port: the board has printed some lines, or none, or
\* the stream has ended
Poll ==
    /\ sess.pc = "running"
    /\ IsExp(Script(sess.op)[sess.at])
    /\ \E chunk \in Chunks(MaxChunk - Len(sess.buffer)), eof \in BOOLEAN :
         /\ sess' = exp_regex(sess, chunk, eof)
         /\ progress' = Advance(progress, chunk, Patterns(sess.op))
    /\ UNCHANGED <<config, attached, powered, proc, ui>>

SendLine ==
    /\ sess.pc = "running"
    /\ ~IsExp(Script(sess.op)[sess.at])
    /\ \E writeOk \in BOOLEAN : sess' = send_line(sess, writeOk)
    /\ UNCHANGED <<config, attached, powered, proc, progress, ui>>

(***************************************************************************)
(* The interactive shell (src/ui/mod.rs).                                  *)
(***************************************************************************)
\* width of usize in the model (64 in the build), and key presses looked at
UsizeBits == 16
MaxKeys   == 5

UsizeMax == 2 ^ UsizeBits - 1

\* profiles of the build: overflow checks on (debug) or off (release)
Builds == {"debug", "release"}

\* Option<usize>
None    == [some |-> FALSE, v |-> 0]
Some(i) == [some |-> TRUE, v |-> i]

\* StatefulList::default() and StatefulList::with_items
EmptyList         == [state |-> None, items |-> <<>>]
with_items(items) == [state |-> None, items |-> items]

OverflowPanic == Panic("attempt to subtract with overflow")
IndexPanic    == Panic("index out of bounds")

\* self.items.len() - 1 in usize: with no items it panics where overflow is
\* checked, and wraps to usize::MAX where it is not
LenMinus1(l, build) ==
    IF Len(l.items) > 0 THEN [res |-> Ok, v |-> Len(l.items) - 1]
    ELSE IF build = "debug" THEN [res |-> OverflowPanic, v |-> 0]
    ELSE [res |-> Ok, v |-> UsizeMax]

\* StatefulList::next
next(l, build) ==
    IF ~l.state.some THEN [res |-> Ok, list |-> [l EXCEPT !.state = Some(0)]]
    ELSE LET m == LenMinus1(l, build)
         IN  IF m.res # Ok THEN [res |-> m.res, list |-> l]
             ELSE IF l.state.v >= m.v
                  THEN [res |-> Ok, list |-> [l EXCEPT !.state = Some(0)]]
             ELSE [res |-> Ok, list |-> [l EXCEPT !.state = Some(l.state.v + 1)]]

\* StatefulList::previous
previous(l, build) ==
    IF ~l.state.some THEN [res |-> Ok, list |-> [l EXCEPT !.state = Some(0)]]
    ELSE IF l.state.v = 0
         THEN LET m == LenMinus1(l, build)
              IN  IF m.res # Ok THEN [res |-> m.res, list |-> l]
                  ELSE [res |-> Ok, list |-> [l EXCEPT !.state = Some(m.v)]]
    ELSE [res |-> Ok, list |-> [l EXCEPT !.state = Some(l.state.v - 1)]]

\* StatefulList::deselect
deselect(l) == [res |-> Ok, list |-> [l EXCEPT !.state = None]]

\* self.items[self.state.selected()?] of selected_board and selected_action:
\* nothing selected gives None, an index past the items panics
selected(l) ==
    IF ~l.state.some THEN [res |-> Ok, some |-> FALSE, v |-> 0]
    ELSE IF l.state.v >= Len(l.items) THEN [res |-> IndexPanic, some |-> FALSE, v |-> 0]
    ELSE [res |-> Ok, some |-> TRUE, v |-> l.state.v + 1]

RECURSIVE LoadFrom(_, _, _)
\* the for loop of get_all_boards_from_config: the first entry whose key is
\* no string or whose record does not load ends it with that error
LoadFrom(cfg, i, acc) ==
    IF i > Len(cfg.boards) THEN [res |-> Ok, boards |-> acc]
    ELSE IF ~cfg.boards[i].keyIsStr
         THEN [res |-> Err("ConfigParsingError: name was not a string"), boards |-> <<>>]
    ELSE LET g == populate_board([DefaultBoard EXCEPT !.name = cfg.boards[i].name],
                                 cfg.boards[i])
         IN  IF g.res # Ok THEN [res |-> g.res, boards |-> <<>>]
             ELSE LoadFrom(cfg, i + 1, Append(acc, g.board))

get_all_boards_from_config(cfg) ==
    IF cfg.file = "unreadable" THEN
        [res |-> Err("io::Error: cannot read config"), boards |-> <<>>]
    ELSE IF cfg.file = "badyaml" THEN
        [res |-> Err("serde_yaml::Error: invalid yaml"), boards |-> <<>>]
    ELSE IF cfg.file = "noboards" THEN
        [res |-> Err("ConfigParsingError: No boards found"), boards |-> <<>>]
    ELSE IF cfg.file = "notmapping" THEN
        [res |-> Panic("called Option::unwrap() on a None value"), boards |-> <<>>]
    ELSE LoadFrom(cfg, 1, <<>>)

\* the items action_menu gives the popup: a label and the function bound to it
ActionItems ==
    << [label |-> "Switch power", action |-> "toggle_power_state"],
       [label |-> "Reboot",       action |-> "toggle_power_state"],
       [label |-> "Boot test",    action |-> "toggle_power_state"] >>

\* the action perform_action is running: the label chosen ("" when none was
\* selected), the board, the function, how far it is ("query": is_powered
\* runs, "switch": the turn_on/turn_off call runs, "done"), the hub tool
\* commands it issued and what it returned
NoJob ==
    [stage |-> "none", label |-> "", action |-> "", board |-> "",
     calls |-> <<>>, result |-> NoResult]

\* UIState::new() in a process not yet in run_interactively
IdleUi ==
    [st |-> "off", build |-> "debug", boards |-> EmptyList, actions |-> EmptyList,
     show_popup |-> FALSE, keys |-> 0, job |-> NoJob, result |-> NoResult]

\* the process ends in a panic
crash(u, res) == [u EXCEPT !.st = "done", !.result = res]

\* the head of run_interactively: the registry is loaded into the board list
run_interactively(u, cfg) ==
    LET g == get_all_boards_from_config(cfg)
    IN  IF g.res # Ok THEN [u EXCEPT !.st = "done", !.result = g.res]
        ELSE [u EXCEPT !.st = "running", !.boards = with_items(g.boards)]

\* action_menu: with a board selected, the popup is filled and shown
action_menu(u) ==
    LET b == selected(u.boards)
    IN  IF b.res # Ok THEN crash(u, b.res)
        ELSE IF ~b.some THEN u
        ELSE [u EXCEPT !.actions = with_items(ActionItems), !.show_popup = TRUE]

\* the list the arrow keys move in
list_key(l, key, build) ==
    IF key = "Left" THEN deselect(l)
    ELSE IF key = "Down" THEN next(l, build)
    ELSE IF key = "Up" THEN previous(l, build)
    ELSE [res |-> Ok, list |-> l]

\* the match on key.code of run_interactively for the keys q, Left, Down, Up
\* and others, and Enter on the board list
on_key(u, key) ==
    LET v == [u EXCEPT !.keys = @ + 1]
    IN  IF key = "q" THEN [v EXCEPT !.st = "done", !.result = Ok]
        ELSE IF ~u.show_popup
        THEN IF key = "Enter" THEN action_menu(v)
             ELSE LET r == list_key(u.boards, key, u.build)
                  IN  IF r.res # Ok THEN crash(v, r.res)
                      ELSE [v EXCEPT !.boards = r.list]
        ELSE LET r == list_key(u.actions, key, u.build)
             IN  IF r.res # Ok THEN crash(v, r.res)
                 ELSE [v EXCEPT !.actions = r.list]

\* ykcmd::turn_on_board and ykcmd::turn_off_board, which toggle_power_state
\* calls: power_on and power_off of the board named, loaded from the registry
turn_on_board(p, cfg, board_name) ==
    address(start(p, "ykcmd::turn_on_board", "", board_name), cfg, board_name, "up")

turn_off_board(p, cfg, board_name) ==
    address(start(p, "ykcmd::turn_off_board", "", board_name), cfg, board_name, "down")

\* perform_action up to the call of the function chosen: the board selected,
\* the action selected (toggle_power_state when none is)
perform_action(u) ==
    LET v == [u EXCEPT !.keys = @ + 1]
        b == selected(u.boards)
        a == selected(u.actions)
    IN  IF b.res # Ok THEN crash(v, b.res)
        ELSE IF ~b.some THEN [v EXCEPT !.job = [NoJob EXCEPT !.stage = "done",
                                                             !.result = Ok]]
        ELSE IF a.res # Ok THEN crash(v, a.res)
        ELSE [v EXCEPT !.job =
                 [NoJob EXCEPT !.stage = "query",
                               !.label = IF a.some THEN u.actions.items[a.v].label ELSE "",
                               !.action = IF a.some THEN u.actions.items[a.v].action
                                          ELSE "toggle_power_state",
                               !.board = u.boards.items[b.v].name]]

\* toggle_power_state after board.is_powered() has returned r, having issued
\* calls: an error is returned (and dropped by run_interactively), a panic
\* ends the process, else the power is switched
toggle_power_state(u, r, calls) ==
    LET j == [u.job EXCEPT !.calls = @ \o calls]
    IN  IF r.st = "Panic" THEN crash([u EXCEPT !.job = j], r)
        ELSE IF r.st = "Err"
        THEN [u EXCEPT !.job = [j EXCEPT !.stage = "done", !.result = r]]
        ELSE [u EXCEPT !.job = [j EXCEPT !.stage = "switch"]]

\* the function chosen has returned r, having issued calls
action_returned(u, r, calls) ==
    LET j == [u.job EXCEPT !.calls = @ \o calls, !.stage = "done", !.result = r]
    IN  IF r.st = "Panic" THEN crash([u EXCEPT !.job = j], r)
        ELSE [u EXCEPT !.job = j]

\* the invocation the shell's engine calls run in
Shell == 1

Keys == {"q", "Left", "Down", "Up", "Enter", "x"}

RunInteractively ==
    /\ ui.st = "off"
    /\ ui' = run_interactively(ui, config)
    /\ UNCHANGED <<config, attached, powered, proc, sess, progress>>

\* event::poll has a key and no action is running
Polling ==
    /\ ui.st = "running"
    /\ ui.job.stage \in {"none", "done"}
    /\ ui.keys < MaxKeys

KeyQuit ==
    /\ Polling
    /\ ui' = on_key(ui, "q")
    /\ UNCHANGED <<config, attached, powered, proc, sess, progress>>

KeyLeft ==
    /\ Polling
    /\ ui' = on_key(ui, "Left")
    /\ UNCHANGED <<config, attached, powered, proc, sess, progress>>

KeyDown ==
    /\ Polling
    /\ ui' = on_key(ui, "Down")
    /\ UNCHANGED <<config, attached, powered, proc, sess, progress>>

KeyUp ==
    /\ Polling
    /\ ui' = on_key(ui, "Up")
    /\ UNCHANGED <<config, attached, powered, proc, sess, progress>>

KeyOther ==
    /\ Polling
    /\ ui' = on_key(ui, "x")
    /\ UNCHANGED <<config, attached, powered, proc, sess, progress>>

\* Enter on the board list
KeyEnterList ==
    /\ Polling
    /\ ~ui.show_popup
    /\ ui' = on_key(ui, "Enter")
    /\ UNCHANGED <<config, attached, powered, proc, sess, progress>>

\* Enter on the popup: perform_action, and with a board selected the call of
\* board.is_powered() that toggle_power_state begins with
KeyEnterPopup ==
    /\ Polling
    /\ ui.show_popup
    /\ ui' = perform_action(ui)
    /\ proc' = IF ui'.job.stage = "query"
               THEN [proc EXCEPT ![Shell] = is_powered(proc[Shell], config, ui'.job.board)]
               ELSE proc
    /\ UNCHANGED <<config, attached, powered, sess, progress>>

\* is_powered has returned: toggle_power_state goes on to turn_on_board when
\* the board is off and to turn_off_board when it is on
Toggle ==
    /\ ui.st = "running"
    /\ ui.job.stage = "query"
    /\ proc[Shell].pc = "done"
    /\ ui' = toggle_power_state(ui, proc[Shell].result, proc[Shell].calls)
    /\ proc' = IF ui'.job.stage # "switch" THEN proc
               ELSE IF proc[Shell].result = OkBool(FALSE)
               THEN [proc EXCEPT ![Shell] = turn_on_board(proc[Shell], config, ui.job.board)]
               ELSE [proc EXCEPT ![Shell] = turn_off_board(proc[Shell], config, ui.job.board)]
    /\ UNCHANGED <<config, attached, powered, sess, progress>>

\* turn_on_board / turn_off_board has returned
ActionReturns ==
    /\ ui.st = "running"
    /\ ui.job.stage = "switch"
    /\ proc[Shell].pc = "done"
    /\ ui' = action_returned(ui, proc[Shell].result, proc[Shell].calls)
    /\ UNCHANGED <<config, attached, powered, proc, sess, progress>>

Init ==
    /\ config \in Configs
    /\ attached \in SUBSET HubIds
    /\ powered \in [HubIds -> BOOLEAN]
    /\ proc = [c \in Callers |-> IdleProc]
    /\ sess = IdleSess
    /\ progress = 0
    /\ ui = IdleUi

Step(c) ==
    \/ PowerOffBoard(c)
    \/ PowerOnBoard(c)
    \/ RebootBoard(c)
    \/ IsPowered(c)
    \/ Goodnight(c)
    \/ Main(c)
    \/ SweepNext(c)
    \/ ListHubs(c)
    \/ SetPort(c)
    \/ GetPort(c)
    \/ Sleep(c)

Next ==
    \/ Step(1)
    \/ Attach
    \/ Detach

\* one invocation at a time, as the tool is used
Spec == Init /\ [][Next]_vars

\* one expect session on the serial console of a board
BootRegistry ==
    << CHOOSE b \in BoardPool : b.name = "icicle",
       CHOOSE b \in BoardPool : b.name = "relayboard" >>

InitBoot ==
    /\ config = [file |-> "ok", boards |-> BootRegistry]
    /\ attached = HubIds
    /\ powered = [i \in HubIds |-> FALSE]
    /\ proc = [c \in Callers |-> IdleProc]
    /\ sess = IdleSess
    /\ progress = 0
    /\ ui = IdleUi

NextBoot ==
    \/ ExpectBoot
    \/ ExpectShutdown
    \/ Poll
    \/ SendLine

SpecBoot == InitBoot /\ [][NextBoot]_vars

\* two invocations at once (two shells, or a shell and a script), each
\* running one operation of src/ykcmd on a board of the lab's registry
InitRace ==
    /\ config = [file |-> "ok", boards |-> BootRegistry]
    /\ attached = HubIds
    /\ powered \in [HubIds -> BOOLEAN]
    /\ proc = [c \in Callers |-> IdleProc]
    /\ sess = IdleSess
    /\ progress = 0
    /\ ui = IdleUi

\* each invocation runs one operation
RaceStep(c) ==
    \/ proc[c].pc = "idle" /\ PowerOffBoard(c)
    \/ proc[c].pc = "idle" /\ PowerOnBoard(c)
    \/ proc[c].pc = "idle" /\ RebootBoard(c)
    \/ proc[c].pc = "idle" /\ IsPowered(c)
    \/ ListHubs(c)
    \/ SetPort(c)
    \/ GetPort(c)
    \/ Sleep(c)

NextRace ==
    \/ RaceStep(1)
    \/ RaceStep(2)
    \/ Attach
    \/ Detach

SpecRace == InitRace /\ [][NextRace]_vars

\* the config files the shell is started on: no boards, the lab's two boards,
\* a record that does not load, a "boards" value that is no mapping
UiConfigs ==
    { [file |-> "ok", boards |-> <<>>],
      [file |-> "ok", boards |-> BootRegistry],
      [file |-> "ok", boards |-> << CHOOSE b \in BoardPool : b.name = "partial" >>],
      [file |-> "notmapping", boards |-> <<>>] }

\* one interactive shell
InitUI ==
    /\ config \in UiConfigs
    /\ attached = HubIds
    /\ powered \in [HubIds -> BOOLEAN]
    /\ proc = [c \in Callers |-> IdleProc]
    /\ sess = IdleSess
    /\ progress = 0
    /\ ui \in { [IdleUi EXCEPT !.build = b] : b \in Builds }

NextUI ==
    \/ RunInteractively
    \/ KeyQuit
    \/ KeyLeft
    \/ KeyDown
    \/ KeyUp
    \/ KeyOther
    \/ KeyEnterList
    \/ KeyEnterPopup
    \/ Toggle
    \/ ActionReturns
    \/ ListHubs(Shell)
    \/ GetPort(Shell)
    \/ SetPort(Shell)

SpecUI == InitUI /\ [][NextUI]_vars

(***************************************************************************)
(* Properties of power control.                                            *)
(***************************************************************************)
IsSet(x)  == x.cmd = "set"
IsPort(x) == x.cmd \in {"set", "get"}

SetCalls(p) == SelectSeq(p.calls, IsSet)
Last(q)     == q[Len(q)]

\* the entry points that address one board
SingleEntries ==
    {"ykcmd::power_off_board", "ykcmd::power_on_board", "ykcmd::reboot_board",
     "ykcmd::is_powered", "main::turn_off_board", "main::reboot_board"}

\* C1: a reboot (ykcmd::reboot and main's reboot_board) issues its set-state
\* calls in the order off, on, each at most once; the on-call is issued only
\* after an off-call that succeeded; and a reboot that returns Ok has issued
\* exactly one successful off-call followed by exactly one on-call.
C1_RebootOffThenOn ==
    \A c \in Callers :
        LET p == proc[c]
            sc == SetCalls(p)
        IN  p.entry \in RebootEntries =>
              /\ Len(sc) <= 2
              /\ Len(sc) >= 1 => sc[1].flag = "d"
              /\ Len(sc) = 2 => (sc[2].flag = "u" /\ sc[1].ok)
              /\ (p.pc = "done" /\ p.result = Ok) =>
                     (Len(sc) = 2 /\ sc[1].ok /\ sc[2].ok)
              /\ (Len(sc) = 1 /\ ~sc[1].ok) => p.pc = "done" /\ p.result.st # "Ok"

\* a reboot has returned Ok after one off-call and then one on-call
C1_Witness ==
    \E c \in Callers :
        /\ proc[c].entry = "ykcmd::reboot_board"
        /\ proc[c].pc = "done"
        /\ proc[c].result = Ok
        /\ Len(SetCalls(proc[c])) = 2
        /\ SetCalls(proc[c])[1].flag = "d"
        /\ SetCalls(proc[c])[2].flag = "u"

\* C2: in power_on, power_off, reboot and query_power, a listing that was
\* read and does not contain the board's hub serial number is the last
\* command of the operation: no set-state or get-state call follows it, and
\* the operation has failed with BoardNotAttached.
C2_NotAttachedNoPortCall ==
    \A c \in Callers :
        LET p == proc[c]
        IN  \A i \in 1..Len(p.calls) :
              (p.calls[i].cmd = "list" /\ p.calls[i].io = "ok"
                 /\ ~Contains(p.calls[i].out, p.calls[i].serial)) =>
                /\ i < Len(p.calls) => ~IsPort(p.calls[i + 1])
                /\ p.entry \in SingleEntries =>
                     (i = Len(p.calls) /\ p.pc = "done" /\ p.result = BoardNotAttached)

\* the hub was gone at the first listing of a power-on: no call but the listing
C2_Witness ==
    \E c \in Callers :
        /\ proc[c].entry = "ykcmd::power_on_board"
        /\ proc[c].pc = "done"
        /\ Len(proc[c].calls) = 1
        /\ proc[c].calls[1].io = "ok"
        /\ ~Contains(proc[c].calls[1].out, proc[c].cur.yk_serial_number)
        /\ proc[c].result = BoardNotAttached

\* the record of the board the invocation asked for, as the registry holds it
Asked(p) == get_board_from_config(config, p.name)

\* C3: an operation on a board whose record loads and whose power-source kind
\* is neither "usb" nor "relay" has failed with UnsupportedHubKind and has
\* issued no hub tool command at all.
C3_UnsupportedKindNoCall ==
    \A c \in Callers :
        LET p == proc[c]
        IN  (p.entry \in SingleEntries /\ Asked(p).res = Ok
               /\ Asked(p).board.power_source \notin {"usb", "relay"}) =>
              (p.pc = "done" /\ p.result = UnsupportedHubKind /\ p.calls = <<>>)

\* a power query of the board of kind "USB" has failed so
C3_Witness ==
    \E c \in Callers :
        /\ proc[c].entry = "ykcmd::is_powered"
        /\ proc[c].name = "oddkind"
        /\ Asked(proc[c]).res = Ok
        /\ proc[c].result = UnsupportedHubKind
        /\ proc[c].calls = <<>>

\* C4: every set-state and get-state command of an invocation is directly
\* preceded by a listing of its own that contained the board's hub serial
\* number.
C4_EveryPortCallFreshlyListed ==
    \A c \in Callers :
        LET p == proc[c]
        IN  \A i \in 1..Len(p.calls) :
              IsPort(p.calls[i]) =>
                /\ i > 1
                /\ p.calls[i - 1].cmd = "list"
                /\ p.calls[i - 1].ok
                /\ p.calls[i - 1].serial = p.calls[i].serial

(***************************************************************************)
(* Properties of the fleet sweep.                                          *)
(***************************************************************************)
\* the keys of the registry, in file order
RegistryNames == [i \in 1..Len(config.boards) |-> config.boards[i].name]

\* C7: a sweep over a registry that loaded has, when it ends, handed every
\* board of the registry to power_off exactly once, in registry order, and
\* has returned Ok, whatever happened on each board.
C7_SweepAttemptsEveryBoard ==
    \A c \in Callers :
        LET p == proc[c]
        IN  (p.entry \in SweepEntries /\ p.pc = "done" /\ config.file = "ok") =>
              (p.result = Ok /\ p.attempted = RegistryNames)

\* C8: when the registry cannot be loaded (file unreadable, not YAML, no
\* "boards" key, "boards" not a mapping) the sweep has returned an error
\* without handing any board to power_off and without any hub tool command;
\* and a sweep returns an error in that case only.
C8_SweepFailsOnlyOnRegistry ==
    \A c \in Callers :
        LET p == proc[c]
        IN  p.entry \in SweepEntries =>
              /\ config.file # "ok" =>
                   (p.pc = "done" /\ p.result.st = "Err"
                      /\ p.calls = <<>> /\ p.attempted = <<>>)
              /\ (p.pc = "done" /\ p.result.st = "Err") => config.file # "ok"

\* a sweep over a config whose "boards" value is no mapping has failed
C8_Witness ==
    \E c \in Callers :
        /\ proc[c].entry = "ykcmd::goodnight"
        /\ config.file = "notmapping"
        /\ proc[c].pc = "done"
        /\ proc[c].result = Err("YkmdError: No boards found")
        /\ proc[c].calls = <<>>

(***************************************************************************)
(* Properties of single operations.                                        *)
(***************************************************************************)
\* the hubs a board record addresses
HubsOf(p) ==
    { i \in HubIds : Hubs[i].tool = p.command
                       /\ Hubs[i].serial = p.cur.yk_serial_number
                       /\ p.cur.yk_port_number = "1" }

\* C9: the result of power_off and power_on is decided by the exit status
\* of the set-state call alone, never by the state the port was in: with
\* exit status zero the operation returns Ok and the port is in the state
\* asked for, also when it already was (a second power_off after a first).
C9_PowerIdempotent ==
    \A c \in Callers :
        LET p == proc[c]
        IN  (p.entry \in OffEntries \cup {"ykcmd::power_on_board"}
               /\ p.pc = "done" /\ p.calls # <<>> /\ Last(p.calls).cmd = "set"
               /\ Last(p.calls).io = "ok") =>
              /\ p.result = Ok <=> Last(p.calls).ok
              /\ Last(p.calls).ok =>
                   \A i \in HubsOf(p) : powered[i] = (p.phase = "up")

\* a power_off right after a successful power_off of the same board, the
\* port being off already, has returned Ok
C9_Witness ==
    \E c \in Callers :
        /\ proc[c].entry = "ykcmd::power_off_board"
        /\ proc[c].again
        /\ proc[c].pc = "done"
        /\ proc[c].result = Ok
        /\ Last(proc[c].calls).cmd = "set"
        /\ ~Last(proc[c].calls).was
        /\ \A i \in HubsOf(proc[c]) : ~powered[i]

\* C10: a power query of an attached board whose get-state command exited
\* with status zero returns on iff the output contains "ON" (off when it
\* carries no marker); when the command failed and the output carries no
\* marker, the query fails with an error that differs from the one a failed
\* get-state command with the marker gives (AmbiguousPortState).
C10_QueryPowerAmbiguous ==
    \A c \in Callers :
        LET p == proc[c]
        IN  (p.entry = "ykcmd::is_powered" /\ p.pc = "done" /\ p.calls # <<>>
               /\ Last(p.calls).cmd = "get" /\ Last(p.calls).io = "ok") =>
              LET g == Last(p.calls)
                  marker == Contains(g.out, OnMarker)
              IN  /\ g.ok => p.result = OkBool(marker)
                  /\ (~g.ok /\ ~marker) =>
                       (p.result.st = "Err"
                          /\ p.result # port_status(FALSE, TRUE, OnMarker))

\* the entry points that end in set-state calls on one board
SetEntries == OffEntries \cup RebootEntries \cup {"ykcmd::power_on_board"}

\* C11: a set-state command that ran and exited with a status other than
\* zero is the last command of a power_off, power_on or reboot, which has
\* returned HubOperationFailed to its caller as it is; and such an operation
\* that returned Ok has issued at least one set-state command, all of which
\* exited with status zero.
C11_SetFailureSurfaces ==
    \A c \in Callers :
        LET p == proc[c]
        IN  p.entry \in SetEntries =>
              /\ \A i \in 1..Len(p.calls) :
                   (p.calls[i].cmd = "set" /\ p.calls[i].io = "ok"
                      /\ ~p.calls[i].ok) =>
                     (i = Len(p.calls) /\ p.pc = "done"
                        /\ p.result = HubOperationFailed)
              /\ (p.pc = "done" /\ p.result = Ok) =>
                   (SetCalls(p) # <<>>
                      /\ \A i \in 1..Len(SetCalls(p)) : SetCalls(p)[i].ok)

\* the set-state command of a power_on has exited non-zero and the power_on
\* has returned HubOperationFailed
C11_Witness ==
    \E c \in Callers :
        /\ proc[c].entry = "ykcmd::power_on_board"
        /\ proc[c].pc = "done"
        /\ Len(proc[c].calls) = 2
        /\ proc[c].calls[2].cmd = "set"
        /\ proc[c].calls[2].flag = "u"
        /\ proc[c].calls[2].io = "ok"
        /\ ~proc[c].calls[2].ok
        /\ proc[c].result = HubOperationFailed

\* C12: when the list command could not be started, the operation has ended
\* right there (no second listing, no set-state or get-state command) with
\* an error value (HubToolExecutionError) that is not BoardNotAttached.
C12_ListSpawnFailureIsError ==
    \A c \in Callers :
        LET p == proc[c]
        IN  p.entry \in SingleEntries =>
              \A i \in 1..Len(p.calls) :
                (p.calls[i].cmd = "list" /\ p.calls[i].io = "nospawn") =>
                  /\ i = Len(p.calls)
                  /\ p.pc = "done"
                  /\ p.result.st = "Err"
                  /\ p.result # BoardNotAttached

\* the flag letters an entry point may pass to the hub tool
FlagsOf(entry) ==
    IF entry \in OffEntries THEN {"l", "d"}
    ELSE IF entry = "ykcmd::power_on_board" THEN {"l", "u"}
    ELSE IF entry = "ykcmd::is_powered" THEN {"l", "g"}
    ELSE {"l", "d", "u"}

\* C20: every hub tool command of an operation on one board carries the
\* serial number and the port number that the registry holds for the board
\* asked for, as they stand there, and the command prefix of its type
\* ("usb": ykushcmd ykush, "relay": ykurcmd); a listing carries -l, a
\* set-state call -d in power_off and -u in power_on (a reboot: -d then
\* -u), a get-state call -g.
C20_CommandFromRegistry ==
    \A c \in Callers :
        LET p == proc[c]
        IN  p.entry \in SingleEntries =>
              \A i \in 1..Len(p.calls) :
                LET x == p.calls[i]
                IN  x.cmd \in {"list", "set", "get"} =>
                      /\ Lookup(config, p.name) # {}
                      /\ LET rec == config.boards[CHOOSE k \in Lookup(config, p.name) : TRUE]
                         IN  /\ rec.serial = Str(x.serial)
                             /\ rec.port = Str(x.port)
                             /\ \/ rec.type = Str("usb") /\ x.prefix = YKUSH
                                \/ rec.type = Str("relay") /\ x.prefix = YKUR
                      /\ x.flag \in FlagsOf(p.entry)
                      /\ x.cmd = "list" <=> x.flag = "l"
                      /\ x.cmd = "get" <=> x.flag = "g"
                      /\ x.cmd = "set" <=> x.flag \in {"d", "u"}

\* a power_on of the usb board has issued `ykushcmd ykush -s Y1 -u 1`
C20_Witness ==
    \E c \in Callers :
        LET p == proc[c]
        IN  /\ p.entry = "ykcmd::power_on_board"
            /\ p.name = "icicle"
            /\ p.pc = "done"
            /\ p.result = Ok
            /\ Len(p.calls) = 2
            /\ p.calls[2].cmd = "set"
            /\ p.calls[2].flag = "u"
            /\ p.calls[2].prefix = YKUSH
            /\ p.calls[2].serial = SerialY1
            /\ p.calls[2].port = "1"

(***************************************************************************)
(* Properties of a reboot.                                                 *)
(***************************************************************************)
IsSleep(x) == x.cmd = "sleep"
IsHub(x)   == x.cmd \in {"list", "set", "get"}
OffOk(x)   == IsSet(x) /\ x.flag = "d" /\ x.io = "ok" /\ x.ok

\* C21: in a reboot, a sleep of 1000 ms directly follows every off-call that
\* succeeded, and follows nothing else (not a failed off-call, not a
\* listing); so no hub tool command of the on phase (its listing, its
\* on-call) is issued before the sleep is over, and there is one sleep at
\* most.
C21_SettleDelay ==
    \A c \in Callers :
        LET p == proc[c]
        IN  p.entry \in RebootEntries =>
              /\ \A i \in 1..Len(p.calls) :
                   /\ IsSleep(p.calls[i]) =>
                        (i > 1 /\ OffOk(p.calls[i - 1])
                           /\ p.calls[i].out = <<SettleMs>>)
                   /\ (OffOk(p.calls[i]) /\ i < Len(p.calls)) =>
                        IsSleep(p.calls[i + 1])
                   /\ (IsSet(p.calls[i]) /\ p.calls[i].flag = "u") =>
                        \E k \in 1..(i - 1) : IsSleep(p.calls[k])
                   /\ (IsSet(p.calls[i]) /\ p.calls[i].flag = "d"
                         /\ ~OffOk(p.calls[i])) =>
                        (i = Len(p.calls) /\ p.pc = "done")
              /\ Len(SelectSeq(p.calls, IsSleep)) <= 1
              /\ p.pc = "sleep" <=> (p.calls # <<>> /\ OffOk(Last(p.calls)))

\* a reboot has switched the board off, slept, and listed the hubs again;
\* the on-call comes next
C21_Witness ==
    \E c \in Callers :
        LET p == proc[c]
        IN  /\ p.entry = "ykcmd::reboot_board"
            /\ p.pc = "act"
            /\ p.phase = "up"
            /\ Len(p.calls) = 4
            /\ OffOk(p.calls[2])
            /\ IsSleep(p.calls[3])
            /\ p.calls[4].cmd = "list"
            /\ p.calls[4].ok

\* the calls of an invocation after its first successful off-call
AfterOff(p) ==
    LET S == { i \in 1..Len(p.calls) : OffOk(p.calls[i]) }
    IN  IF S = {} THEN <<>>
        ELSE SubSeq(p.calls, (CHOOSE i \in S : \A j \in S : i <= j) + 1, Len(p.calls))

\* the on phase of a reboot has failed: its listing was read and lacks the
\* serial number, or its on-call ran and exited non-zero
OnPhaseFailed(q) ==
    \E i \in 1..Len(q) :
        \/ q[i].cmd = "list" /\ q[i].io = "ok" /\ ~q[i].ok
        \/ IsSet(q[i]) /\ q[i].flag = "u" /\ q[i].io = "ok" /\ ~q[i].ok

\* C22: a reboot that has returned Ok has issued one off-call and one
\* on-call, both with success.  After a successful off-call, a failure of
\* the on phase (listing without the serial number, on-call exiting
\* non-zero) is the last command of the reboot: it has returned the error of
\* that failure (BoardNotAttached, HubOperationFailed), has issued no
\* further listing, off-call or on-call, and the port is off.
C22_RebootPartialFailure ==
    \A c \in Callers :
        LET p == proc[c]
            q == AfterOff(p)
        IN  p.entry \in RebootEntries =>
              /\ (p.pc = "done" /\ p.result = Ok) =>
                   /\ Len(SetCalls(p)) = 2
                   /\ OffOk(SetCalls(p)[1])
                   /\ SetCalls(p)[2].flag = "u" /\ SetCalls(p)[2].ok
              /\ OnPhaseFailed(q) =>
                   /\ p.pc = "done"
                   /\ ~OnPhaseFailed(SubSeq(q, 1, Len(q) - 1))
                   /\ Last(q).cmd = "list" => p.result = BoardNotAttached
                   /\ Last(q).cmd = "set" => p.result = HubOperationFailed
                   /\ Len(SelectSeq(q, IsSet)) <= 1
                   /\ Len(SelectSeq(q, IsHub)) <= 2
                   /\ \A i \in HubsOf(p) : ~powered[i]

\* a reboot has switched the board off and slept; the hub was gone from the
\* second listing, the reboot has returned BoardNotAttached and the port is
\* off
C22_Witness ==
    \E c \in Callers :
        LET p == proc[c]
        IN  /\ p.entry = "ykcmd::reboot_board"
            /\ p.pc = "done"
            /\ p.result = BoardNotAttached
            /\ Len(p.calls) = 4
            /\ OffOk(p.calls[2])
            /\ IsSleep(p.calls[3])
            /\ p.calls[4].cmd = "list"
            /\ ~p.calls[4].ok
            /\ HubsOf(p) # {}
            /\ \A i \in HubsOf(p) : ~powered[i]

(***************************************************************************)
(* Properties of the command line (src/main.rs).                           *)
(***************************************************************************)
\* C19: `--function on` issues at most one set-state call, with the flag
\* -u, and exactly one when it returns Ok; `--function off` issues at most
\* one set-state call, with the flag -d, and exactly one when it returns Ok.
C19_OnIsPowerOn ==
    \A c \in Callers :
        LET p == proc[c]
            sc == SetCalls(p)
        IN  /\ p.function = "on" =>
                 /\ Len(sc) <= 1
                 /\ \A i \in 1..Len(sc) : sc[i].flag = "u"
                 /\ (p.pc = "done" /\ p.result = Ok) => Len(sc) = 1
            /\ p.function = "off" =>
                 /\ Len(sc) <= 1
                 /\ \A i \in 1..Len(sc) : sc[i].flag = "d"
                 /\ (p.pc = "done" /\ p.result = Ok) => Len(sc) = 1

(***************************************************************************)
(* Properties of two invocations at once.                                  *)
(***************************************************************************)
\* x and y are commands to the same port of the same hub
SamePort(x, y) ==
    x.prefix = y.prefix /\ x.serial = y.serial /\ x.port = y.port

\* C18: nothing makes an invocation wait for another between its listing
\* and its port command: whatever the other invocation is doing, and whether
\* or not the hub is still attached, the listing, the set-state and the
\* get-state command of an invocation can be issued as soon as it has
\* reached them.  So a reboot can return Ok and leave the port off; it does
\* so only when another invocation switched that port off with success.
C18_NoLock ==
    \A c \in Callers :
        LET p == proc[c]
        IN  /\ p.pc = "list" => ENABLED ListHubs(c)
            /\ (p.pc = "act" /\ p.phase \in {"down", "up"}) => ENABLED SetPort(c)
            /\ (p.pc = "act" /\ p.phase = "get") => ENABLED GetPort(c)
            /\ (p.entry = "ykcmd::reboot_board" /\ p.pc = "done" /\ p.result = Ok) =>
                 \A i \in HubsOf(p) :
                   ~powered[i] =>
                     \E d \in Callers \ {c} : \E k \in 1..Len(proc[d].calls) :
                       /\ IsSet(proc[d].calls[k])
                       /\ proc[d].calls[k].flag = "d"
                       /\ proc[d].calls[k].ok
                       /\ SamePort(proc[d].calls[k], Last(p.calls))

\* invocation 1 reboots a board and is between its off-call and its on-call,
\* its second listing read; the port was on before its off-call.  Invocation
\* 2 has powered the same board off with success and found the port off
\* already: its set-state call landed after the off-call of the reboot.  The
\* hub has been pulled out since the listings, and the on-call comes next.
C18_Witness ==
    /\ proc[1].entry = "ykcmd::reboot_board"
    /\ proc[1].pc = "act"
    /\ proc[1].phase = "up"
    /\ Len(SetCalls(proc[1])) = 1
    /\ SetCalls(proc[1])[1].ok
    /\ SetCalls(proc[1])[1].was
    /\ Last(proc[1].calls).cmd = "list"
    /\ Last(proc[1].calls).ok
    /\ proc[2].entry = "ykcmd::power_off_board"
    /\ proc[2].pc = "done"
    /\ proc[2].result = Ok
    /\ SamePort(Last(proc[2].calls), Last(proc[1].calls))
    /\ ~Last(proc[2].calls).was
    /\ Target(proc[1].command, proc[1].cur.yk_serial_number,
              proc[1].cur.yk_port_number, attached) = {}

(***************************************************************************)
(* Properties of the registry.                                             *)
(***************************************************************************)
\* a board whose three hub fields are non-empty texts
HubFieldsGiven(b) ==
    /\ b.yk_serial_number # Empty
    /\ b.yk_port_number # ""
    /\ b.power_source # ""

\* C13: a hub tool command is issued only for a board whose serial number,
\* port number and type are non-empty, a serial port is opened only for a
\* board whose UART path was read from the registry, and no operation
\* addresses a board a field of which is still the default value.
C13_OnlyFullBoards ==
    /\ \A c \in Callers :
         LET p == proc[c]
         IN  p.calls # <<>> =>
               /\ HubFieldsGiven(p.cur)
               /\ p.cur.yk_serial_number # DefaultBoard.yk_serial_number
               /\ p.cur.yk_port_number # DefaultBoard.yk_port_number
               /\ p.cur.power_source # DefaultBoard.power_source
    /\ sess.pc # "idle" => sess.uart # DefaultBoard.primary_uart

(***************************************************************************)
(* Properties of boot and shutdown verification.                           *)
(***************************************************************************)
\* the boot machine's states, by position in the script
LoggedIn == Len(BootScript) + 1

C5_State ==
    sess.op = "boot" =>
      /\ Matched("boot", sess.at) <= progress
      /\ sess.buffer = <<>> => Matched("boot", sess.at) = progress
      /\ (sess.pc = "done" /\ sess.result = Ok) <=> sess.at = LoggedIn
      /\ (progress = Len(Patterns("boot")) /\ sess.buffer = <<>>) =>
            (sess.pc = "done" /\ sess.result = Ok)
      /\ sess.result = ExpectTimeout =>
            /\ sess.pc = "done"
            /\ IsExp(BootScript[sess.at])
            /\ Matched("boot", sess.at) = progress
            /\ progress < Len(Patterns("boot"))

C5_Step == sess'.at \in {sess.at, sess.at + 1}

Waits(s) ==
    IF Matched(s.op, s.at) < Len(Patterns(s.op))
    THEN Matched(s.op, s.at) + 1 ELSE Len(Patterns(s.op))

LoginLines == <<"root", "fedora_rocks!">>

\* patterns matched once the login prompt, and once the password prompt, is
LoginPromptSeen    == 4
PasswordPromptSeen == 5

\* C14: what a boot session has written to the serial port is a prefix of
\* <"root", credential line>, so each line is written at most once and in
\* that order; "root" is written only when the login prompt has been
\* matched (and the stream has brought it), the credential line only when
\* the password prompt has been; once the session is past a send step the
\* line of that step has been written; nothing else is ever written.
C14_LoginWrites ==
    sess.op = "boot" =>
      /\ Len(sess.written) <= Len(LoginLines)
      /\ sess.written = SubSeq(LoginLines, 1, Len(sess.written))
      /\ Len(sess.written) >= 1 =>
            (Matched("boot", sess.at) >= LoginPromptSeen
               /\ progress >= LoginPromptSeen)
      /\ Len(sess.written) = 2 =>
            (Matched("boot", sess.at) >= PasswordPromptSeen
               /\ progress >= PasswordPromptSeen)
      /\ Matched("boot", sess.at) >= PasswordPromptSeen => Len(sess.written) >= 1
      /\ Matched("boot", sess.at) = Len(Patterns("boot")) => sess.written = LoginLines

\* a boot session has written "root" after the login prompt and waits for
\* the password prompt
C14_Witness ==
    /\ sess.op = "boot"
    /\ sess.pc = "running"
    /\ sess.written = <<"root">>
    /\ Matched("boot", sess.at) = LoginPromptSeen
    /\ IsExp(BootScript[sess.at])

\* C15: a boot session that has sent the login line and then fails on a
\* prompt it awaits (the password prompt or the shell prompt) ends with an
\* error of its own (UnexpectedConsoleOutput), not with the error a timeout
\* gives.
C15_MismatchIsNotTimeout ==
    (sess.op = "boot" /\ sess.pc = "done" /\ sess.result.st = "Err"
       /\ sess.written # <<>> /\ IsExp(BootScript[sess.at])) =>
      sess.result # ExpectTimeout

\* the shutdown machine's states, by position in the script
AwaitingShutdownCommand == 1
AwaitingHaltedMessage   == AwaitingShutdownCommand + 1
Halted                  == Len(ShutdownScript) + 1

\* C17: a shutdown session is in AwaitingShutdownCommand, then in
\* AwaitingHaltedMessage, then in Halted; it leaves the first only by
\* writing "poweroff" (nothing is read before), and the second only by
\* matching the halted message in what it read after that; it returns Ok iff
\* it is in Halted, and then the stream has brought the halted message; on
\* a stream without the halted message it never returns Ok.
C17_ShutdownOrder ==
    sess.op = "shutdown" =>
      /\ sess.pc # "done" => sess.at \in {AwaitingShutdownCommand, AwaitingHaltedMessage}
      /\ (sess.pc = "done" /\ sess.result = Ok) <=> sess.at = Halted
      /\ sess.at = AwaitingShutdownCommand =>
            (sess.written = <<>> /\ progress = 0 /\ sess.buffer = <<>>)
      /\ sess.at >= AwaitingHaltedMessage => sess.written = <<"poweroff">>
      /\ sess.at = Halted => progress = Len(Patterns("shutdown"))
      /\ progress = 0 => sess.result # Ok

\* a shutdown session has returned Ok: "poweroff" written, then the halted
\* message read
C17_Witness ==
    /\ sess.op = "shutdown"
    /\ sess.pc = "done"
    /\ sess.result = Ok
    /\ sess.at = Halted
    /\ sess.written = <<"poweroff">>
    /\ progress = 1

(***************************************************************************)
(* Properties of the interactive shell.                                    *)
(***************************************************************************)
IsGet(x) == x.cmd = "get"

\* the power query of an action returned off: its get-state command exited
\* with status zero and printed no "ON"
QueriedOff(calls) ==
    \E i \in 1..Len(calls) :
        IsGet(calls[i]) /\ calls[i].io = "ok" /\ calls[i].ok
          /\ ~Contains(calls[i].out, OnMarker)

QueriedOn(calls) ==
    \E i \in 1..Len(calls) :
        IsGet(calls[i]) /\ calls[i].io = "ok" /\ calls[i].ok
          /\ Contains(calls[i].out, OnMarker)

\* C23: an action of the popup that has returned has, when its label is
\* "Reboot", issued no power query and set-state calls in the order off, on
\* (both, with success, when it returned Ok); when its label is "Switch
\* power", it has issued at most one set-state call: an on-call only if its
\* power query returned off, an off-call only if it returned on, and
\* exactly one when it returned Ok.
C23_MenuActions ==
    LET j  == ui.job
        sc == SelectSeq(j.calls, IsSet)
    IN  j.stage = "done" =>
          /\ j.label = "Reboot" =>
               /\ SelectSeq(j.calls, IsGet) = <<>>
               /\ Len(sc) <= 2
               /\ Len(sc) >= 1 => sc[1].flag = "d"
               /\ Len(sc) = 2 => sc[2].flag = "u"
               /\ j.result = Ok => (Len(sc) = 2 /\ sc[1].ok /\ sc[2].ok)
          /\ j.label = "Switch power" =>
               /\ Len(sc) <= 1
               /\ \A i \in 1..Len(sc) :
                    /\ sc[i].flag = "u" => QueriedOff(j.calls)
                    /\ sc[i].flag = "d" => QueriedOn(j.calls)
               /\ j.result = Ok => Len(sc) = 1

\* the selection of a list is none or an index into its items
InRange(l) == l.state.some => l.state.v < Len(l.items)

\* C24: after any sequence of next, previous and deselect keys on a list of
\* any length, the empty list included, the selection is none or a valid
\* index into the items, so that selected_board and selected_action never
\* index out of range and next and previous never underflow
C24_SelectionInRange ==
    /\ InRange(ui.boards)
    /\ InRange(ui.actions)
    /\ ui.result \notin {OverflowPanic, IndexPanic}

====
